---- MODULE Spec2Model ----
(***************************************************************************)
(* Grocery-store backend (FastAPI + SQLAlchemy): the order workflow and    *)
(* the address book of src/app/routers, over the tables of                 *)
(* src/app/models.py.                                                      *)
(*                                                                         *)
(* Every request runs in its own SQLAlchemy Session (get_db), i.e. in its  *)
(* own database transaction.  A handler is modelled as a sequence of       *)
(* steps, one per SQL statement that reads or writes shared rows; what the *)
(* session keeps between statements (its identity map of loaded objects,   *)
(* its pending writes) is the request record.  The store is the default    *)
(* of src/app/database.py, PostgreSQL at READ COMMITTED: a statement sees  *)
(* the rows committed when it starts, uncommitted writes are invisible to  *)
(* other transactions, a row written by a transaction stays locked until   *)
(* that transaction ends.                                                  *)
(*                                                                         *)
(* Spec          the order handlers, one request at a time: a handler runs  *)
(*               to completion.                                            *)
(* SpecShop      orders and the catalog while the product rows change.     *)
(* SpecAddr      the address handlers, one request at a time.              *)
(* SpecConc      NumRequests order requests, steps interleaved.            *)
(* SpecAddrConc  NumRequests address requests, steps interleaved.          *)
(* SpecAuth      register, login and /auth/me, with a clock.               *)
(* SpecGate      the authenticated handlers, called with a token.          *)
(* SpecPwd       hash_password and verify_password.                        *)
(***************************************************************************)
EXTENDS Integers, Sequences, FiniteSets, TLC

VARIABLES
    db,     \* the committed database: products, orders, addresses
    req,    \* the requests in flight, each with its own session
    last,   \* Spec: the last completed request and its response
    pre,    \* Spec: the database before the last completed request
    init,   \* the database at the start
    now,    \* the clock, in minutes
    tokens, \* the access tokens issued by login so far
    float   \* the float arithmetic of the interpreter: results by operands

vars == <<db, req, last, pre, init, now, tokens, float>>

-----------------------------------------------------------------------------
(* Bounds *)

MaxLines == 2        \* cart lines per order request
MaxQty == 2          \* quantity per cart line (schema: quantity > 0)
MaxStock == 2        \* initial stock per product
MaxOrders == 2       \* orders ever created
MaxAddresses == 3    \* addresses ever created
NumRequests == 3     \* concurrent requests of SpecConc
ConcMaxLines == 1    \* cart lines per concurrent order request
ShopMaxQty == 3      \* quantity per cart line, and stock, of SpecShop
ShopMaxOrders == 1   \* orders ever created in SpecShop
MaxUsers == 4        \* users ever created
MaxTokens == 2       \* tokens ever issued by login
MaxDrift == 1        \* minutes of the clock beyond the life of a token
GateMaxRows == 1     \* orders, and addresses, ever created in SpecGate
MaxRuns == 2         \* runs of a password of SpecPwd

Users == {1, 2}
ConcUsers == {1}                      \* the user of the concurrent requests
ProductIds == {1, 2, 3}               \* rows of table products
CartProductIds == ProductIds \cup {4} \* 4 names no product
Quantities == 1..MaxQty
OrderIds == 1..MaxOrders
AddressIds == 1..MaxAddresses

Lines == [product_id : CartProductIds, quantity : Quantities]
Carts == UNION {[1..n -> Lines] : n \in 0..MaxLines}

-----------------------------------------------------------------------------
(* Passwords, src/app/utils/security.py.  A password is a sequence of runs  *)
(* [w, n]: n times the character of the alphabet whose UTF-8 encoding has   *)
(* w bytes (one character per width, adjacent runs of different widths).    *)
(* bcrypt, behind pwd_context, reads at most BcryptBytes bytes of a secret: *)
(* given more, a build either drops the rest silently or raises ValueError  *)
(* ("password cannot be longer than 72 bytes"), depending on the version of *)
(* the bcrypt package; strict tells which.                                  *)

MinLength == 8       \* UserCreate.password, min_length
MaxLength == 100     \* UserCreate.password, max_length
BcryptBytes == 72    \* the bound of the primitive, and of password[:72]

Widths == 1..4

\* len(password)
RECURSIVE Chars(_)
Chars(p) == IF p = <<>> THEN 0 ELSE Head(p).n + Chars(Tail(p))

\* len(password.encode('utf-8'))
RECURSIVE Utf8Len(_)
Utf8Len(p) == IF p = <<>> THEN 0 ELSE Head(p).w * Head(p).n + Utf8Len(Tail(p))

\* password[:k]: the first k characters
RECURSIVE Prefix(_, _)
Prefix(p, k) ==
    IF k = 0 \/ p = <<>>
    THEN <<>>
    ELSE IF Head(p).n <= k
    THEN <<Head(p)>> \o Prefix(Tail(p), k - Head(p).n)
    ELSE <<[Head(p) EXCEPT !.n = k]>>

\* The first b bytes of the encoded secret: whole characters, then the
\* bytes of a character that is cut (<<w, bytes>>, or <<>>)
RECURSIVE BytePrefix(_, _)
BytePrefix(p, b) ==
    IF b = 0 \/ p = <<>>
    THEN [chars |-> <<>>, cut |-> <<>>]
    ELSE LET w == Head(p).w
             n == Head(p).n
         IN  IF w * n <= b
             THEN LET rest == BytePrefix(Tail(p), b - w * n)
                  IN  [rest EXCEPT !.chars = <<Head(p)>> \o @]
             ELSE [chars |-> IF b \div w = 0 THEN <<>>
                             ELSE <<[w |-> w, n |-> b \div w]>>,
                   cut |-> IF b % w = 0 THEN <<>> ELSE <<w, b % w>>]

\* What bcrypt digests of a secret
Digest(secret) == BytePrefix(secret, BcryptBytes)

\* pwd_context.hash(secret): <<the salted hash>>, or <<>> for ValueError.
\* The salt is kept in the hash and used again by verify.
PwdContextHash(secret, strict) ==
    IF strict /\ Utf8Len(secret) > BcryptBytes
    THEN [error |-> "ValueError", handed |-> Utf8Len(secret), hash |-> <<>>]
    ELSE [error |-> "", handed |-> Utf8Len(secret),
          hash |-> <<Digest(secret)>>]

\* pwd_context.verify(secret, hash)
PwdContextVerify(secret, hash, strict) ==
    IF strict /\ Utf8Len(secret) > BcryptBytes
    THEN [error |-> "ValueError", handed |-> Utf8Len(secret),
          verified |-> FALSE]
    ELSE [error |-> "", handed |-> Utf8Len(secret),
          verified |-> hash = <<Digest(secret)>>]

\* Mutant: the password is cut to the bound in bytes.
TruncateToBytes(password) == BytePrefix(password, BcryptBytes).chars

\* Lines 16-17 and 26-27: a password of more than 72 bytes is cut to its
\* first 72 characters
Truncate(password) ==
    IF Utf8Len(password) > BcryptBytes
    THEN Prefix(password, BcryptBytes)
    ELSE password

hash_password(password, strict) == PwdContextHash(Truncate(password), strict)

verify_password(plain_password, hashed_password, strict) ==
    PwdContextVerify(Truncate(plain_password), hashed_password, strict)

\* The passwords of the users of the model: MinLength times one character
Secret(w) == <<[w |-> w, n |-> MinLength]>>

-----------------------------------------------------------------------------
(* Tables *)

\* The name and the price of every product, as the catalog has them at
\* first and as a later revision of the product rows has them.  Prices are
\* in hundredths of a currency unit (Numeric(10, 2)).
Catalogs ==
    <<[name |-> <<"Organic Apples", "Fresh Bananas", "Sweet Oranges">>,
       price |-> <<30000, 25000, 12000>>],
      [name |-> <<"Apples", "Bananas", "Oranges">>,
       price |-> <<5405, 14865, 12000>>]>>

\* Rows of table categories; the third has no product
CategoryRows ==
    <<[id |-> 1, name |-> "Fruits"],
      [id |-> 2, name |-> "Dairy"],
      [id |-> 3, name |-> "Bakery"]>>

\* Product rows: 1 and 2 are on sale, 3 is deactivated; 1 and 3 are fruits.
ProductRow(p, s) ==
    [stock |-> s,
     is_active |-> (p # 3),
     category_id |-> IF p = 2 THEN 2 ELSE 1,
     name |-> Catalogs[1].name[p],
     price |-> Catalogs[1].price[p]]

\* Rows of table users: admin and john_doe
SeedUsers ==
    <<[id |-> 1, username |-> "admin", email |-> "admin@freshmart.com",
       hashed_password |-> hash_password(Secret(1), FALSE).hash,
       role |-> "admin", is_active |-> TRUE, is_verified |-> TRUE],
      [id |-> 2, username |-> "john_doe", email |-> "john@example.com",
       hashed_password |-> hash_password(Secret(2), FALSE).hash,
       role |-> "customer", is_active |-> TRUE, is_verified |-> TRUE]>>

InitDb(st) ==
    [users |-> SeedUsers,
     user_seq |-> Len(SeedUsers),
     products |-> [p \in ProductIds |-> ProductRow(p, st[p])],
     categories |-> CategoryRows,
     orders |-> <<>>,
     order_seq |-> 0,
     addresses |-> <<>>,
     address_seq |-> 0]

\* The products on sale fully stocked, the deactivated one out of stock
StockedDb == InitDb([p \in ProductIds |-> IF p = 3 THEN 0 ELSE MaxStock])

\* Any stock of the products on sale
InitDbs ==
    {InitDb(st) : st \in {f \in [ProductIds -> 0..MaxStock] : f[3] = MaxStock}}

\* The carts of the concurrent requests
ConcCarts ==
    {cart \in Carts : /\ Len(cart) <= ConcMaxLines
                      /\ \A k \in 1..Len(cart) : cart[k].product_id \in {1, 2}}

\* SELECT ... WHERE id = :id  (.first()): the rows with that id
RowsById(table, id) == SelectSeq(table, LAMBDA row : row.id = id)

\* UPDATE/replace the row with that id
ReplaceRow(table, id, new) ==
    [k \in 1..Len(table) |-> IF table[k].id = id THEN new ELSE table[k]]

-----------------------------------------------------------------------------
(* A request and its session *)

\* No claim sub; no Authorization header (see the access tokens below)
NoSub == [type |-> "none", val |-> 0]

NoToken == [form |-> "missing", signed |-> FALSE, sub |-> NoSub, exp |-> 0]

NotLoaded ==
    [present |-> FALSE, stock |-> 0, is_active |-> FALSE, name |-> "",
     price |-> 0]

NoResponse ==
    [op |-> "none", user |-> 0, cart |-> <<>>, order_id |-> 0,
     address_id |-> 0, is_default |-> "unset",
     status_code |-> 0, error |-> "", undo |-> FALSE,
     orders |-> <<>>,
     category |-> "none", search |-> "none", skip |-> 0, limit |-> 0,
     products |-> <<>>,
     username |-> "", email |-> "", password |-> <<>>,
     token |-> NoToken, clock |-> 0]

NewRequest ==
    [op |-> "none", pc |-> "new", user |-> 0,
     cart |-> <<>>, order_id |-> 0,
     i |-> 1,                                    \* loop index
     order_items_data |-> <<>>,                  \* create_order locals
     subtotal |-> [m |-> <<>>, e |-> 0],
     new_order |-> <<>>,                         \* the flushed Order
     loaded |-> [p \in ProductIds |-> NotLoaded],\* identity map: Product
     address_id |-> 0,
     is_default |-> "unset",                     \* is_default of the body
     loaded_default |-> "unset",                 \* identity map: address
     cleared |-> {},                             \* rows of the bulk UPDATE
     orders |-> <<>>,                            \* the orders of the body
     category |-> "none", search |-> "none",     \* get_products: the query
     skip |-> 0, limit |-> 0,
     products |-> <<>>,                          \* the products of the body
     username |-> "", email |-> "",              \* register, login: the body
     password |-> <<>>,
     strict |-> FALSE,                           \* the build of bcrypt
     hashed |-> <<>>, handed |-> 0,              \* the hash; bytes to bcrypt
     verified |-> FALSE,
     token |-> NoToken,                          \* the Authorization header
     clock |-> 0,                                \* datetime.now()
     entry |-> "",                               \* first step of the handler
     status_code |-> 0, error |-> ""]

\* raise HTTPException: the session is closed by get_db, which rolls back
Raise(r, code, error) ==
    [r EXCEPT !.pc = "done", !.status_code = code, !.error = error]

Return(r, code) ==
    [r EXCEPT !.pc = "done", !.status_code = code, !.error = ""]

\* db.query(Product).filter(Product.id == pid).first(): an object already in
\* the session's identity map is returned as it is, not refreshed
QueryProduct(r, d, pid) ==
    IF r.loaded[pid].present
    THEN r.loaded[pid]
    ELSE [present |-> TRUE,
          stock |-> d.products[pid].stock,
          is_active |-> d.products[pid].is_active,
          name |-> d.products[pid].name,
          price |-> d.products[pid].price]

-----------------------------------------------------------------------------
(* Python floats (IEEE 754 binary64, round to nearest, ties to even), as    *)
(* create_order uses them for money: float(product.price) * item.quantity,  *)
(* subtotal += ..., subtotal * 0.05, round(..., 2).  A natural number is a  *)
(* sequence of limbs, least significant first, without leading zeros; a     *)
(* float is m * 2^e with m of Mantissa bits, or zero.  All amounts are      *)
(* non-negative.                                                            *)

Mantissa == 53
Limb == 2 ^ 15

RECURSIVE IntBits(_)
IntBits(n) == IF n = 0 THEN 0 ELSE 1 + IntBits(n \div 2)

LimbBits == IntBits(Limb) - 1

RECURSIVE BigOfInt(_)
BigOfInt(n) == IF n = 0 THEN <<>> ELSE <<n % Limb>> \o BigOfInt(n \div Limb)

RECURSIVE BigToInt(_)
BigToInt(a) == IF Len(a) = 0 THEN 0 ELSE a[1] + Limb * BigToInt(Tail(a))

RECURSIVE Trim(_)
Trim(a) ==
    IF Len(a) > 0 /\ a[Len(a)] = 0 THEN Trim(SubSeq(a, 1, Len(a) - 1)) ELSE a

RECURSIVE AddFrom(_, _, _, _)
AddFrom(a, b, k, carry) ==
    IF k > Len(a) /\ k > Len(b)
    THEN IF carry = 0 THEN <<>> ELSE <<carry>>
    ELSE LET s == (IF k <= Len(a) THEN a[k] ELSE 0)
                  + (IF k <= Len(b) THEN b[k] ELSE 0) + carry
         IN  <<s % Limb>> \o AddFrom(a, b, k + 1, s \div Limb)

BigAdd(a, b) == AddFrom(a, b, 1, 0)

RECURSIVE MulFrom(_, _, _, _)
MulFrom(a, n, k, carry) ==
    IF k > Len(a)
    THEN BigOfInt(carry)
    ELSE LET s == a[k] * n + carry
         IN  <<s % Limb>> \o MulFrom(a, n, k + 1, s \div Limb)

\* a * n for 0 <= n <= Limb
BigMulSmall(a, n) == IF n = 0 THEN <<>> ELSE MulFrom(a, n, 1, 0)

Zeros(n) == [k \in 1..n |-> 0]

RECURSIVE MulLimbs(_, _, _)
MulLimbs(a, b, k) ==
    IF k > Len(b)
    THEN <<>>
    ELSE BigAdd(IF b[k] = 0 THEN <<>> ELSE Zeros(k - 1) \o BigMulSmall(a, b[k]),
                MulLimbs(a, b, k + 1))

BigMul(a, b) == MulLimbs(a, b, 1)

\* a * 2^n
BigShl(a, n) ==
    IF Len(a) = 0 THEN <<>>
    ELSE Zeros(n \div LimbBits) \o BigMulSmall(a, 2 ^ (n % LimbBits))

\* floor(a / 2^n)
BigShr(a, n) ==
    LET limbs == n \div LimbBits
        bits == n % LimbBits
        rest == IF limbs >= Len(a) THEN <<>> ELSE SubSeq(a, limbs + 1, Len(a))
    IN  Trim([k \in 1..Len(rest) |->
                rest[k] \div 2 ^ bits
                + (IF k < Len(rest) THEN rest[k + 1] % 2 ^ bits ELSE 0)
                  * 2 ^ (LimbBits - bits)])

\* bit n of a (bit 0 is the least significant)
BigBit(a, n) ==
    LET k == n \div LimbBits + 1
    IN  IF k > Len(a) THEN 0 ELSE (a[k] \div 2 ^ (n % LimbBits)) % 2

\* some bit of a below bit n is set
BigLow(a, n) ==
    \E k \in 1..Len(a) :
        \/ k <= n \div LimbBits /\ a[k] # 0
        \/ k = n \div LimbBits + 1 /\ a[k] % 2 ^ (n % LimbBits) # 0

BigBits(a) ==
    IF Len(a) = 0 THEN 0 ELSE LimbBits * (Len(a) - 1) + IntBits(a[Len(a)])

RECURSIVE DivFrom(_, _, _, _)
DivFrom(a, n, k, rem) ==
    IF k = 0
    THEN [q |-> <<>>, r |-> rem]
    ELSE LET cur == rem * Limb + a[k]
             low == DivFrom(a, n, k - 1, cur % n)
         IN  [q |-> Append(low.q, cur \div n), r |-> low.r]

\* quotient and remainder of a by n, 0 < n <= Limb
BigDivSmall(a, n) ==
    LET d == DivFrom(a, n, Len(a), 0) IN [q |-> Trim(d.q), r |-> d.r]

\* a > b
BigGt(a, b) ==
    \/ Len(a) > Len(b)
    \/ /\ Len(a) = Len(b)
       /\ \E k \in 1..Len(a) :
            /\ a[k] > b[k]
            /\ \A j \in (k + 1)..Len(a) : a[j] = b[j]

FloatZero == [m |-> <<>>, e |-> 0]

\* The float nearest to (n + t) * 2^e, where 0 <= t < 1 and sticky says
\* t > 0 (then n has more than Mantissa bits); ties go to the even mantissa.
FloatRound(n, e, sticky) ==
    LET bits == BigBits(n)
        drop == bits - Mantissa
        kept == BigShr(n, drop)
        half == BigBit(n, drop - 1) = 1
        rest == sticky \/ BigLow(n, drop - 1)
        up == half /\ (rest \/ BigBit(kept, 0) = 1)
        m == IF up THEN BigAdd(kept, <<1>>) ELSE kept
    IN  IF bits = 0 THEN FloatZero
        ELSE IF drop <= 0 THEN [m |-> BigShl(n, -drop), e |-> e + drop]
        ELSE IF BigBits(m) > Mantissa
        THEN [m |-> BigShr(m, 1), e |-> e + drop + 1]
        ELSE [m |-> m, e |-> e + drop]

\* float(Decimal) of h hundredths: the float nearest to h / 100
FloatOfHundredths(h) ==
    LET d == BigDivSmall(BigShl(BigOfInt(h), 70), 100)
    IN  FloatRound(d.q, -70, d.r # 0)

\* float(n) of an int
FloatOfInt(n) == FloatRound(BigOfInt(n), 0, FALSE)

FloatAdd(x, y) ==
    LET e == IF x.e < y.e THEN x.e ELSE y.e
    IN  IF Len(x.m) = 0 THEN y
        ELSE IF Len(y.m) = 0 THEN x
        ELSE FloatRound(BigAdd(BigShl(x.m, x.e - e), BigShl(y.m, y.e - e)),
                        e, FALSE)

FloatMul(x, y) == FloatRound(BigMul(x.m, y.m), x.e + y.e, FALSE)

\* x > y
FloatGt(x, y) ==
    LET e == IF x.e < y.e THEN x.e ELSE y.e
    IN  IF Len(y.m) = 0 THEN Len(x.m) > 0
        ELSE IF Len(x.m) = 0 THEN FALSE
        ELSE BigGt(BigShl(x.m, x.e - e), BigShl(y.m, y.e - e))

\* The integer nearest to 100 * x; a tie goes to the even integer (round(x,
\* 2) of Python rounds the exact value of the float) or away from zero (a
\* NUMERIC(10, 2) column).
Hundredths(x, even) ==
    LET n == BigMulSmall(x.m, 100)
        kept == BigShr(n, -x.e)
        half == BigBit(n, -x.e - 1) = 1
        rest == BigLow(n, -x.e - 1)
        up == half /\ (~even \/ rest \/ BigBit(kept, 0) = 1)
    IN  IF Len(x.m) = 0 THEN 0
        ELSE IF x.e >= 0 THEN BigToInt(BigShl(n, x.e))
        ELSE BigToInt(kept) + (IF up THEN 1 ELSE 0)

\* round(x, 2)
Round2(x) == FloatOfHundredths(Hundredths(x, TRUE))

\* The value of a NUMERIC(10, 2) column that is assigned the float x
Numeric(x) == Hundredths(x, FALSE)

-----------------------------------------------------------------------------
(* create_order, src/app/routers/orders.py *)

\* Mutant: the schema refuses a cart without lines.
StartPlaceNonEmpty(u, cart) ==
    IF Len(cart) = 0
    THEN Raise([NewRequest EXCEPT !.op = "place", !.user = u, !.cart = cart],
               422, "ValidationError")
    ELSE [NewRequest EXCEPT !.op = "place", !.user = u, !.cart = cart,
                            !.pc = "validate"]

\* OrderCreate (schemas.py 97-105) accepts any list of items; with no item
\* the loop of lines 23-54 has no iteration
StartPlace(u, cart) ==
    [NewRequest EXCEPT !.op = "place", !.user = u, !.cart = cart,
                       !.pc = IF Len(cart) = 0 THEN "flush" ELSE "validate"]

\* float(product.price) * item.quantity (line 45)
ItemSubtotal(price, quantity) ==
    FloatMul(FloatOfHundredths(price), FloatOfInt(quantity))

\* subtotal = 0 (line 20) and subtotal += item_subtotal (line 46) for the
\* first k of the lines
RECURSIVE Accumulate(_, _)
Accumulate(lines, k) ==
    IF k = 0
    THEN FloatZero
    ELSE FloatAdd(Accumulate(lines, k - 1),
                  ItemSubtotal(lines[k].price, lines[k].quantity))

\* Fees (lines 57-59).  The delivery fee is the int 0 or 49.
DeliveryFee(subtotal) == IF FloatGt(subtotal, FloatOfInt(500)) THEN 0 ELSE 49

Tax(subtotal) == Round2(FloatMul(subtotal, FloatOfHundredths(5)))

Total(subtotal) ==
    FloatAdd(FloatAdd(subtotal, FloatOfInt(DeliveryFee(subtotal))),
             Tax(subtotal))

\* The arithmetic above is evaluated once for the prices of the catalogs
\* and the quantities of the carts, and looked up afterwards (the domains
\* are enumerated sets, so that the functions are tables).
TableQuantities == 1..(IF MaxQty > ShopMaxQty THEN MaxQty ELSE ShopMaxQty)

CatalogPrices(c) == {Catalogs[c].price[p] : p \in ProductIds}

PricedLines ==
    {lines : lines \in
        UNION {[1..n -> [price : CatalogPrices(c), quantity : TableQuantities]] :
                 c \in 1..Len(Catalogs), n \in 0..MaxLines}}

\* The value of subtotal after the validation loop has added these lines
Subtotal == [lines \in PricedLines |-> Accumulate(lines, Len(lines))]

\* The columns product_price and subtotal of an OrderItem (lines 50-53,
\* 84-87)
ItemColumns ==
    [line \in {line : line \in
                 UNION {[price : CatalogPrices(c), quantity : TableQuantities] :
                          c \in 1..Len(Catalogs)}} |->
        [product_price |-> Numeric(FloatOfHundredths(line.price)),
         subtotal |-> Numeric(ItemSubtotal(line.price, line.quantity))]]

\* The columns subtotal, delivery_fee, tax and total of an Order (70-73)
Amounts ==
    [subtotal \in {Subtotal[lines] : lines \in PricedLines} |->
        [subtotal |-> Numeric(subtotal),
         delivery_fee |-> 100 * DeliveryFee(subtotal),
         tax |-> Numeric(Tax(subtotal)),
         total |-> Numeric(Total(subtotal))]]

\* The results that the handlers look up: those of carts of at most n lines
\* of the products ps at the prices of the catalogs cs, in quantities 1..q
FloatUnit(cs, ps, q, n) ==
    LET priced == UNION {[price : {Catalogs[c].price[p] : p \in ps},
                          quantity : 1..q] : c \in cs}
        carts == {lines \in PricedLines :
                    /\ Len(lines) <= n
                    /\ \A k \in 1..Len(lines) : lines[k] \in priced}
    IN  [subtotal |-> [lines \in carts |-> Subtotal[lines]],
         item |-> [line \in priced |-> ItemColumns[line]],
         amounts |-> [subtotal \in {Subtotal[lines] : lines \in carts} |->
                        Amounts[subtotal]]]

\* The first n lines of the cart with the prices of the loaded products
Priced(cart, loaded, n) ==
    [k \in 1..n |-> [price |-> loaded[cart[k].product_id].price,
                     quantity |-> cart[k].quantity]]

\* Mutant: the stock of a validated line is decremented and written at once.
PlaceValidateEager(r, d) ==
    LET item == r.cart[r.i]
        pid == item.product_id
    IN  IF pid \notin DOMAIN d.products
        THEN [r |-> Raise(r, 404, "ProductNotFound"), db |-> d]
        ELSE
        LET product == QueryProduct(r, d, pid)
            loaded == [r.loaded EXCEPT ![pid] = product]
            line == [price |-> product.price, quantity |-> item.quantity]
        IN  IF ~product.is_active
            THEN [r |-> Raise(r, 400, "ProductUnavailable"), db |-> d]
            ELSE IF d.products[pid].stock < item.quantity
            THEN [r |-> Raise(r, 400, "InsufficientStock"), db |-> d]
            ELSE [r |-> [r EXCEPT
                    !.loaded = loaded,
                    !.subtotal = float.subtotal[Priced(r.cart, loaded, r.i)],
                    !.order_items_data = Append(@,
                        [product_id |-> pid,
                         product_name |-> product.name,
                         product_price |-> float.item[line].product_price,
                         quantity |-> item.quantity,
                         subtotal |-> float.item[line].subtotal]),
                    !.i = @ + 1,
                    !.pc = IF r.i = Len(r.cart) THEN "flush" ELSE "validate"],
                  db |-> [d EXCEPT !.products[pid].stock = @ - item.quantity]]

\* Mutant: the stock of the product is compared before its is_active.
PlaceValidateStockFirst(r, d) ==
    LET item == r.cart[r.i]
        pid == item.product_id
    IN  IF pid \notin DOMAIN d.products
        THEN [r |-> Raise(r, 404, "ProductNotFound"), db |-> d]
        ELSE
        LET product == QueryProduct(r, d, pid)
            loaded == [r.loaded EXCEPT ![pid] = product]
            line == [price |-> product.price, quantity |-> item.quantity]
        IN  IF product.stock < item.quantity
            THEN [r |-> Raise(r, 400, "InsufficientStock"), db |-> d]
            ELSE IF ~product.is_active
            THEN [r |-> Raise(r, 400, "ProductUnavailable"), db |-> d]
            ELSE [r |-> [r EXCEPT
                    !.loaded = loaded,
                    !.subtotal = float.subtotal[Priced(r.cart, loaded, r.i)],
                    !.order_items_data = Append(@,
                        [product_id |-> pid,
                         product_name |-> product.name,
                         product_price |-> float.item[line].product_price,
                         quantity |-> item.quantity,
                         subtotal |-> float.item[line].subtotal]),
                    !.i = @ + 1,
                    !.pc = IF r.i = Len(r.cart) THEN "flush" ELSE "validate"],
                  db |-> d]

\* One iteration of the validation loop (lines 23-54) on cart line r.i.
PlaceValidate(r, d) ==
    LET item == r.cart[r.i]
        pid == item.product_id
    IN  IF pid \notin DOMAIN d.products
        THEN [r |-> Raise(r, 404, "ProductNotFound"), db |-> d]
        ELSE
        LET product == QueryProduct(r, d, pid)
            loaded == [r.loaded EXCEPT ![pid] = product]
            line == [price |-> product.price, quantity |-> item.quantity]
        IN  IF ~product.is_active
            THEN [r |-> Raise(r, 400, "ProductUnavailable"), db |-> d]
            ELSE IF product.stock < item.quantity
            THEN [r |-> Raise(r, 400, "InsufficientStock"), db |-> d]
            ELSE [r |-> [r EXCEPT
                    !.loaded = loaded,
                    !.subtotal = float.subtotal[Priced(r.cart, loaded, r.i)],
                    !.order_items_data = Append(@,
                        [product_id |-> pid,
                         product_name |-> product.name,
                         product_price |-> float.item[line].product_price,
                         quantity |-> item.quantity,
                         subtotal |-> float.item[line].subtotal]),
                    !.i = @ + 1,
                    !.pc = IF r.i = Len(r.cart) THEN "flush" ELSE "validate"],
                  db |-> d]

\* Lines 62-80: the Order is built and flushed; the INSERT draws the next id
\* of the orders sequence, the row stays uncommitted.
PlaceFlush(r, d) ==
    LET amounts == float.amounts[r.subtotal]
        id == d.order_seq + 1
    IN  [r |-> [r EXCEPT
                  !.pc = "commit",
                  !.order_id = id,
                  !.new_order = [id |-> id,
                                 user_id |-> r.user,
                                 subtotal |-> amounts.subtotal,
                                 delivery_fee |-> amounts.delivery_fee,
                                 tax |-> amounts.tax,
                                 total |-> amounts.total,
                                 status |-> "pending",
                                 payment_status |-> "pending",
                                 items |-> <<>>]],
         db |-> [d EXCEPT !.order_seq = id]]

\* Lines 83-92: product.stock -= quantity for every item, on the objects of
\* the identity map (the query of line 91 returns the object loaded by
\* line 25).
\* Mutant: product.stock -= 1, whatever the quantity.
RECURSIVE DecrementStockByOne(_, _, _)
DecrementStockByOne(loaded, items, k) ==
    IF k > Len(items)
    THEN loaded
    ELSE DecrementStockByOne(
            [loaded EXCEPT ![items[k].product_id].stock = @ - 1],
            items, k + 1)

RECURSIVE DecrementStock(_, _, _)
DecrementStock(loaded, items, k) ==
    IF k > Len(items)
    THEN loaded
    ELSE DecrementStock(
            [loaded EXCEPT ![items[k].product_id].stock = @ - items[k].quantity],
            items, k + 1)

\* The flush of a commit: UPDATE products SET stock = <the attribute> for
\* every object of the identity map.
FlushProducts(products, loaded) ==
    [p \in DOMAIN products |->
        IF loaded[p].present
        THEN [products[p] EXCEPT !.stock = loaded[p].stock]
        ELSE products[p]]

\* Lines 83-95: the items, the stock and db.commit().
PlaceCommit(r, d) ==
    LET loaded == DecrementStock(r.loaded, r.order_items_data, 1)
        order == [r.new_order EXCEPT !.items = r.order_items_data]
    IN  [r |-> Return([r EXCEPT !.loaded = loaded, !.new_order = order], 201),
         db |-> [d EXCEPT !.products = FlushProducts(d.products, loaded),
                          !.orders = Append(d.orders, order)]]

-----------------------------------------------------------------------------
(* cancel_order, src/app/routers/orders.py *)

StartCancel(u, oid) ==
    [NewRequest EXCEPT !.op = "cancel", !.user = u, !.order_id = oid,
                       !.pc = "find"]

\* Mutant: no status check.
CancelFindAnyStatus(r, d) ==
    LET found == SelectSeq(RowsById(d.orders, r.order_id),
                           LAMBDA o : o.user_id = r.user)
    IN  IF Len(found) = 0
        THEN [r |-> Raise(r, 404, "NotFound"), db |-> d]
        ELSE [r |-> [r EXCEPT
                !.new_order = [found[1] EXCEPT !.status = "cancelled"],
                !.i = 1,
                !.pc = IF Len(found[1].items) = 0 THEN "commit" ELSE "restore"],
              db |-> d]

\* Lines 138-155: the order of this user, the status check, and the new
\* status on the loaded object.  order.items (line 158) is loaded with it:
\* the items of a committed order never change.
CancelFind(r, d) ==
    LET found == SelectSeq(RowsById(d.orders, r.order_id),
                           LAMBDA o : o.user_id = r.user)
    IN  IF Len(found) = 0
        THEN [r |-> Raise(r, 404, "NotFound"), db |-> d]
        ELSE IF found[1].status # "pending"
        THEN [r |-> Raise(r, 400, "InvalidState"), db |-> d]
        ELSE [r |-> [r EXCEPT
                !.new_order = [found[1] EXCEPT !.status = "cancelled"],
                !.i = 1,
                !.pc = IF Len(found[1].items) = 0 THEN "commit" ELSE "restore"],
              db |-> d]

\* One iteration of the loop of lines 158-161 on item r.i.
CancelRestore(r, d) ==
    LET item == r.new_order.items[r.i]
        pid == item.product_id
        product == QueryProduct(r, d, pid)
        next == IF r.i = Len(r.new_order.items) THEN "commit" ELSE "restore"
    IN  IF pid \in DOMAIN d.products
        THEN [r |-> [r EXCEPT
                !.loaded[pid] = [product EXCEPT !.stock = @ + item.quantity],
                !.i = @ + 1,
                !.pc = next],
              db |-> d]
        ELSE [r |-> [r EXCEPT !.i = @ + 1, !.pc = next], db |-> d]

\* Mutant: the commit writes the status and not the stocks.
CancelCommitStatusOnly(r, d) ==
    LET row == RowsById(d.orders, r.order_id)[1]
    IN  [r |-> Return(r, 200),
         db |-> [d EXCEPT
                   !.orders = ReplaceRow(d.orders, r.order_id,
                                         [row EXCEPT !.status = "cancelled"])]]

\* Mutant: the commit writes the items again, with the name and the price
\* that their products have now.
CancelCommitRepriced(r, d) ==
    LET row == RowsById(d.orders, r.order_id)[1]
        items == [k \in 1..Len(row.items) |->
                    [row.items[k] EXCEPT
                        !.product_name = d.products[row.items[k].product_id].name,
                        !.product_price = d.products[row.items[k].product_id].price]]
    IN  [r |-> Return(r, 200),
         db |-> [d EXCEPT
                   !.products = FlushProducts(d.products, r.loaded),
                   !.orders = ReplaceRow(d.orders, r.order_id,
                                [row EXCEPT !.status = "cancelled",
                                            !.items = items])]]

\* Mutant: the commit also marks the payment of the order as refunded.
CancelCommitRefunded(r, d) ==
    LET row == RowsById(d.orders, r.order_id)[1]
    IN  [r |-> Return(r, 200),
         db |-> [d EXCEPT
                   !.products = FlushProducts(d.products, r.loaded),
                   !.orders = ReplaceRow(d.orders, r.order_id,
                                [row EXCEPT !.status = "cancelled",
                                            !.payment_status = "refunded"])]]

\* Line 163: db.commit() writes the status and the stocks.
CancelCommit(r, d) ==
    LET row == RowsById(d.orders, r.order_id)[1]
    IN  [r |-> Return(r, 200),
         db |-> [d EXCEPT
                   !.products = FlushProducts(d.products, r.loaded),
                   !.orders = ReplaceRow(d.orders, r.order_id,
                                         [row EXCEPT !.status = "cancelled"])]]

-----------------------------------------------------------------------------
(* get_order and get_user_orders, src/app/routers/orders.py *)

StartGet(u, oid) ==
    [NewRequest EXCEPT !.op = "get", !.user = u, !.order_id = oid,
                       !.pc = "find"]

StartList(u) == [NewRequest EXCEPT !.op = "list", !.user = u, !.pc = "find"]

\* Mutant: the order is looked up by its id alone.
GetFindAnyOwner(r, d) ==
    LET found == RowsById(d.orders, r.order_id)
    IN  IF Len(found) = 0
        THEN [r |-> Raise(r, 404, "NotFound"), db |-> d]
        ELSE [r |-> Return([r EXCEPT !.orders = <<found[1]>>], 200), db |-> d]

\* Lines 118-129: the order with that id of this user, or 404.
GetFind(r, d) ==
    LET found == SelectSeq(RowsById(d.orders, r.order_id),
                           LAMBDA o : o.user_id = r.user)
    IN  IF Len(found) = 0
        THEN [r |-> Raise(r, 404, "NotFound"), db |-> d]
        ELSE [r |-> Return([r EXCEPT !.orders = <<found[1]>>], 200), db |-> d]

\* ORDER BY created_at DESC: the rows are kept in the order of creation
Descending(rows) == [k \in 1..Len(rows) |-> rows[Len(rows) + 1 - k]]

\* Lines 105-109: the orders of this user, the newest first.
ListFind(r, d) ==
    LET found == SelectSeq(d.orders, LAMBDA o : o.user_id = r.user)
    IN  [r |-> Return([r EXCEPT !.orders = Descending(found)], 200), db |-> d]

-----------------------------------------------------------------------------
(* get_products, src/app/routers/products.py.  The query parameters        *)
(* category and search are a string or "none" (None, the default).         *)

\* The descriptions of the products (the column is not written by any
\* handler)
Descriptions ==
    <<"Fresh organic apples from local farms", "Ripe yellow bananas",
      "Juicy sweet oranges">>

SearchTerms == {"none", "fresh"}

\* text ILIKE '%term%': the term is a substring of the text, whatever the
\* case, for the texts and terms of the model
Ilike(text, term) ==
    CASE term = "fresh" ->
           text \in {"Fresh Bananas", "Fresh organic apples from local farms"}
      [] OTHER -> FALSE

StartProducts(category, search, skip, limit) ==
    [NewRequest EXCEPT !.op = "products", !.pc = "find",
                       !.category = category, !.search = search,
                       !.skip = skip, !.limit = limit]

\* The ids of table products in the order of the rows (the query has no
\* ORDER BY: the rows come in the order of the table)
RECURSIVE IdsFrom(_, _)
IdsFrom(products, p) ==
    IF p \notin DOMAIN products
    THEN <<>>
    ELSE <<p>> \o IdsFrom(products, p + 1)

\* Lines 26-43.  "if category:" and "if search:" are false for None and for
\* the empty string; the category filter is added when a category of that
\* name exists.
ProductsFind(r, d) ==
    LET cat == SelectSeq(d.categories, LAMBDA c : c.name = r.category)
        by_category == r.category \notin {"none", ""} /\ Len(cat) > 0
        by_search == r.search \notin {"none", ""}
        Selected(p) ==
            /\ d.products[p].is_active
            /\ by_category => d.products[p].category_id = cat[1].id
            /\ by_search => \/ Ilike(d.products[p].name, r.search)
                            \/ Ilike(Descriptions[p], r.search)
        found == SelectSeq(IdsFrom(d.products, 1), Selected)
        first == r.skip + 1
        end == IF r.skip + r.limit < Len(found) THEN r.skip + r.limit
               ELSE Len(found)
    IN  [r |-> Return([r EXCEPT !.products = SubSeq(found, first, end)], 200),
         db |-> d]

-----------------------------------------------------------------------------
(* The address book, src/app/routers/addresses.py.  A row of user_addresses *)
(* is [id, user_id, is_default]; is_default is "true", "false" or "null"    *)
(* (the column is nullable).  The is_default of a request body is one of    *)
(* these or "unset" (AddressUpdate, exclude_unset).                         *)

StartCreate(u, is_default) ==
    [NewRequest EXCEPT !.op = "create", !.user = u, !.is_default = is_default,
                       !.pc = IF is_default = "true" THEN "clear" ELSE "commit"]

StartUpdate(u, id, is_default) ==
    [NewRequest EXCEPT !.op = "update", !.user = u, !.address_id = id,
                       !.is_default = is_default, !.pc = "find"]

StartDelete(u, id) ==
    [NewRequest EXCEPT !.op = "delete", !.user = u, !.address_id = id,
                       !.pc = "find"]

StartSetDefault(u, id) ==
    [NewRequest EXCEPT !.op = "set_default", !.user = u, !.address_id = id,
                       !.is_default = "true", !.pc = "find"]

\* Mutant: the address is looked up by its id alone.
AddressFindAnyOwner(r, d) ==
    LET found == RowsById(d.addresses, r.address_id)
    IN  IF Len(found) = 0
        THEN [r |-> Raise(r, 404, "NotFound"), db |-> d]
        ELSE [r |-> [r EXCEPT
                !.loaded_default = found[1].is_default,
                !.pc = CASE r.op = "update" ->
                              IF r.is_default = "true" THEN "clear" ELSE "commit"
                         [] r.op = "delete" -> "commit"
                         [] r.op = "set_default" -> "clear"],
              db |-> d]

\* The query of update_address (80-89), delete_address (115-124) and
\* set_default_address (138-147): the address with this id of this user.
AddressFind(r, d) ==
    LET found == SelectSeq(RowsById(d.addresses, r.address_id),
                           LAMBDA a : a.user_id = r.user)
    IN  IF Len(found) = 0
        THEN [r |-> Raise(r, 404, "NotFound"), db |-> d]
        ELSE [r |-> [r EXCEPT
                !.loaded_default = found[1].is_default,
                !.pc = CASE r.op = "update" ->
                              IF r.is_default = "true" THEN "clear" ELSE "commit"
                         [] r.op = "delete" -> "commit"
                         [] r.op = "set_default" -> "clear"],
              db |-> d]

\* Mutant: the bulk UPDATE of create_address filters on the new address,
\* which has no row yet, and matches nothing.
ClearTargetsNotOnCreate(r, d) ==
    {d.addresses[k].id : k \in
        {k \in 1..Len(d.addresses) :
            /\ d.addresses[k].user_id = r.user
            /\ r.op # "create"
            /\ r.op = "update" => d.addresses[k].id # r.address_id}}

\* The rows that the bulk UPDATE ... SET is_default = false of the request
\* matches: the addresses of the user (create 31-33, set_default 150-152),
\* but for the address itself in update_address (93-96).
ClearTargets(r, d) ==
    {d.addresses[k].id : k \in
        {k \in 1..Len(d.addresses) :
            /\ d.addresses[k].user_id = r.user
            /\ r.op = "update" => d.addresses[k].id # r.address_id}}

\* Mutant: Query.update(synchronize_session=False), the loaded address keeps
\* the is_default it was loaded with.
AddressClearNoSync(r, d) ==
    [r |-> [r EXCEPT !.cleared = ClearTargets(r, d), !.pc = "commit"],
     db |-> d]

\* The bulk UPDATE: the rows are written, uncommitted, in this transaction.
\* Query.update() synchronises the session: the loaded address of
\* set_default_address, which is among the rows, now has is_default false.
AddressClear(r, d) ==
    [r |-> [r EXCEPT
              !.cleared = ClearTargets(r, d),
              !.loaded_default =
                  IF r.op = "set_default" THEN "false" ELSE r.loaded_default,
              !.pc = "commit"],
     db |-> d]

\* The rows with the bulk UPDATE of the request applied
Cleared(rows, ids) ==
    [k \in 1..Len(rows) |->
        IF rows[k].id \in ids THEN [rows[k] EXCEPT !.is_default = "false"]
        ELSE rows[k]]

\* db.commit() and db.refresh() of the four handlers.  The flush writes an
\* attribute of the loaded address when its value has changed; an UPDATE of
\* a row that is gone is a StaleDataError, a refresh of it an error too.
AddressCommit(r, d) ==
    LET rows == Cleared(d.addresses, r.cleared)
        exists == Len(RowsById(d.addresses, r.address_id)) > 0
        write == r.is_default # "unset" /\ r.is_default # r.loaded_default
        id == d.address_seq + 1
    IN  CASE r.op = "create" ->
               [r |-> Return([r EXCEPT !.address_id = id], 201),
                db |-> [d EXCEPT
                          !.address_seq = id,
                          !.addresses = Append(rows,
                              [id |-> id, user_id |-> r.user,
                               is_default |-> r.is_default])]]
          [] r.op \in {"update", "set_default"} ->
               IF ~exists
               THEN [r |-> Raise(r, 500, "RowGone"),
                     db |-> IF write THEN d ELSE [d EXCEPT !.addresses = rows]]
               ELSE [r |-> Return(r, 200),
                     db |-> [d EXCEPT !.addresses =
                        IF write
                        THEN ReplaceRow(rows, r.address_id,
                                [RowsById(rows, r.address_id)[1]
                                    EXCEPT !.is_default = r.is_default])
                        ELSE rows]]
          [] r.op = "delete" ->
               [r |-> Return(r, 204),
                db |-> [d EXCEPT !.addresses =
                          SelectSeq(rows, LAMBDA a : a.id # r.address_id)]]

-----------------------------------------------------------------------------
(* Access tokens, src/app/utils/security.py and src/app/dependencies.py.   *)
(* A token is what the Authorization header carries: nothing ("missing"),  *)
(* a string that is no JWT ("malformed"), or a JWT, signed with SECRET_KEY *)
(* and ALGORITHM or not, with its claims sub and exp.  The claim sub is    *)
(* absent ("none"), a JSON number ("int"), the decimal string of a number  *)
(* ("str") or another string ("text").  jwt.decode of python-jose checks   *)
(* the signature, then exp against the clock, then that sub, when present, *)
(* is a string (JWTClaimsError, a JWTError, otherwise).                    *)

ACCESS_TOKEN_EXPIRE_MINUTES == 10080

NoPayload == [decoded |-> FALSE, sub |-> NoSub]

\* create_access_token (30-41), without expires_delta
create_access_token(sub, clock) ==
    [form |-> "jwt", signed |-> TRUE, sub |-> sub,
     exp |-> clock + ACCESS_TOKEN_EXPIRE_MINUTES]

\* Mutant: the expiry of the token is not checked.
DecodeWithoutExpiry(token, clock) ==
    IF token.form # "jwt" \/ ~token.signed \/ token.sub.type = "int"
    THEN NoPayload
    ELSE [decoded |-> TRUE, sub |-> token.sub]

\* decode_access_token (43-51): the payload, or None on a JWTError
decode_access_token(token, clock) ==
    IF \/ token.form # "jwt"
       \/ ~token.signed
       \/ clock > token.exp
       \/ token.sub.type = "int"
    THEN NoPayload
    ELSE [decoded |-> TRUE, sub |-> token.sub]

NoUser == [found |-> FALSE, id |-> 0]

\* Mutant: a user whose account is deactivated is refused.
GetCurrentActiveUser(token, d, clock) ==
    LET payload == decode_access_token(token, clock)
    IN  IF token.form = "missing" THEN NoUser
        ELSE IF ~payload.decoded THEN NoUser
        ELSE IF payload.sub.type = "none" THEN NoUser
        ELSE IF payload.sub.type = "text" THEN NoUser
        ELSE IF Len(RowsById(d.users, payload.sub.val)) = 0 THEN NoUser
        ELSE IF ~RowsById(d.users, payload.sub.val)[1].is_active THEN NoUser
        ELSE [found |-> TRUE, id |-> payload.sub.val]

\* get_current_user (16-54), after oauth2_scheme (line 10), which answers
\* 401 itself when the header is missing: the user, or the 401
get_current_user(token, d, clock) ==
    LET payload == decode_access_token(token, clock)
    IN  IF token.form = "missing" THEN NoUser
        ELSE IF ~payload.decoded THEN NoUser
        ELSE IF payload.sub.type = "none" THEN NoUser
        ELSE IF payload.sub.type = "text" THEN NoUser
        ELSE IF Len(RowsById(d.users, payload.sub.val)) = 0 THEN NoUser
        ELSE [found |-> TRUE, id |-> payload.sub.val]

\* A request of an authenticated handler as it arrives: the dependency
\* get_current_user runs before the body of the handler
WithToken(start, token, clock) ==
    [start EXCEPT !.user = 0, !.token = token, !.clock = clock,
                  !.entry = start.pc, !.pc = "authenticate"]

Authenticate(r, d) ==
    LET current_user == get_current_user(r.token, d, r.clock)
    IN  IF current_user.found
        THEN [r |-> [r EXCEPT !.user = current_user.id, !.pc = r.entry],
              db |-> d]
        ELSE [r |-> Raise(r, 401, "Unauthenticated"), db |-> d]

\* get_current_user_info, src/app/routers/auth.py 93-99
StartMe(u) == [NewRequest EXCEPT !.op = "me", !.user = u, !.pc = "me"]

MeReturn(r, d) == [r |-> Return(r, 200), db |-> d]

-----------------------------------------------------------------------------
(* register and login, src/app/routers/auth.py *)

StartRegister(username, email, password, strict) ==
    [NewRequest EXCEPT !.op = "register", !.pc = "check",
                       !.username = username, !.email = email,
                       !.password = password, !.strict = strict]

StartLogin(username, password, clock, strict) ==
    [NewRequest EXCEPT !.op = "login", !.pc = "find",
                       !.username = username, !.password = password,
                       !.clock = clock, !.strict = strict]

\* Mutant: register checks the username only.
RegisterCheckUsername(r, d) ==
    IF \E k \in 1..Len(d.users) : d.users[k].username = r.username
    THEN [r |-> Raise(r, 400, "DuplicateIdentity"), db |-> d]
    ELSE [r |-> [r EXCEPT !.pc = "commit"], db |-> d]

\* Lines 21-33: the two queries of register
RegisterCheck(r, d) ==
    IF \E k \in 1..Len(d.users) : d.users[k].username = r.username
    THEN [r |-> Raise(r, 400, "DuplicateIdentity"), db |-> d]
    ELSE IF \E k \in 1..Len(d.users) : d.users[k].email = r.email
    THEN [r |-> Raise(r, 400, "DuplicateIdentity"), db |-> d]
    ELSE [r |-> [r EXCEPT !.pc = "commit"], db |-> d]

\* Lines 35-52: the password is hashed, the row inserted and committed.
\* username and email are unique columns (models.py 15-16): the INSERT of a
\* second row with the same value is an IntegrityError.
RegisterCommit(r, d) ==
    LET hashed == hash_password(r.password, r.strict)
        id == d.user_seq + 1
    IN  IF hashed.error # ""
        THEN [r |-> Raise(r, 500, hashed.error), db |-> d]
        ELSE IF \E k \in 1..Len(d.users) :
                    \/ d.users[k].username = r.username
                    \/ d.users[k].email = r.email
        THEN [r |-> Raise(r, 500, "IntegrityError"),
              db |-> [d EXCEPT !.user_seq = id]]
        ELSE [r |-> Return([r EXCEPT !.user = id], 201),
              db |-> [d EXCEPT
                        !.user_seq = id,
                        !.users = Append(@,
                            [id |-> id,
                             username |-> r.username,
                             email |-> r.email,
                             hashed_password |-> hashed.hash,
                             role |-> "customer",
                             is_active |-> TRUE,
                             is_verified |-> FALSE])]]

\* Mutant: login looks at is_active before it verifies the password.
LoginActiveFirst(r, d) ==
    LET found == SelectSeq(d.users, LAMBDA u : u.username = r.username)
        verify == verify_password(r.password, found[1].hashed_password,
                                  r.strict)
    IN  IF Len(found) = 0
        THEN [r |-> Raise(r, 401, "InvalidCredentials"), db |-> d]
        ELSE IF ~found[1].is_active
        THEN [r |-> Raise(r, 403, "AccountDisabled"), db |-> d]
        ELSE IF verify.error # ""
        THEN [r |-> Raise(r, 500, verify.error), db |-> d]
        ELSE IF ~verify.verified
        THEN [r |-> Raise(r, 401, "InvalidCredentials"), db |-> d]
        ELSE [r |-> Return([r EXCEPT
                        !.user = found[1].id,
                        !.token = create_access_token(
                            [type |-> "int", val |-> found[1].id], r.clock)],
                     200),
              db |-> d]

\* Lines 63-90.  "not user or not verify_password(...)": the password is
\* verified when the user exists; the claim sub is user.id, an int.
LoginFind(r, d) ==
    LET found == SelectSeq(d.users, LAMBDA u : u.username = r.username)
        verify == verify_password(r.password, found[1].hashed_password,
                                  r.strict)
    IN  IF Len(found) = 0
        THEN [r |-> Raise(r, 401, "InvalidCredentials"), db |-> d]
        ELSE IF verify.error # ""
        THEN [r |-> Raise(r, 500, verify.error), db |-> d]
        ELSE IF ~verify.verified
        THEN [r |-> Raise(r, 401, "InvalidCredentials"), db |-> d]
        ELSE IF ~found[1].is_active
        THEN [r |-> Raise(r, 403, "AccountDisabled"), db |-> d]
        ELSE [r |-> Return([r EXCEPT
                        !.user = found[1].id,
                        !.token = create_access_token(
                            [type |-> "int", val |-> found[1].id], r.clock)],
                     200),
              db |-> d]

\* hash_password, then verify_password against the hash it returned
PasswordHash(r, d) ==
    LET hashed == hash_password(r.password, r.strict)
    IN  IF hashed.error # ""
        THEN [r |-> Raise([r EXCEPT !.handed = hashed.handed],
                          500, hashed.error),
              db |-> d]
        ELSE [r |-> [r EXCEPT !.handed = hashed.handed,
                              !.hashed = hashed.hash,
                              !.pc = "verify"],
              db |-> d]

PasswordVerify(r, d) ==
    LET verify == verify_password(r.password, r.hashed, r.strict)
    IN  IF verify.error # ""
        THEN [r |-> Raise([r EXCEPT !.handed = verify.handed],
                          500, verify.error),
              db |-> d]
        ELSE [r |-> Return([r EXCEPT !.handed = verify.handed,
                                     !.verified = verify.verified], 200),
              db |-> d]

-----------------------------------------------------------------------------
(* One step of a request; a handler run from its first step to its response *)

AddressOps == {"create", "update", "delete", "set_default"}

Step(r, d) ==
    CASE r.pc = "authenticate" -> Authenticate(r, d)
      [] r.op = "me" /\ r.pc = "me" -> MeReturn(r, d)
      [] r.op = "register" /\ r.pc = "check" -> RegisterCheck(r, d)
      [] r.op = "register" /\ r.pc = "commit" -> RegisterCommit(r, d)
      [] r.op = "login" /\ r.pc = "find" -> LoginFind(r, d)
      [] r.op = "password" /\ r.pc = "hash" -> PasswordHash(r, d)
      [] r.op = "password" /\ r.pc = "verify" -> PasswordVerify(r, d)
      [] r.op = "place" /\ r.pc = "validate" -> PlaceValidate(r, d)
      [] r.op = "place" /\ r.pc = "flush" -> PlaceFlush(r, d)
      [] r.op = "place" /\ r.pc = "commit" -> PlaceCommit(r, d)
      [] r.op = "cancel" /\ r.pc = "find" -> CancelFind(r, d)
      [] r.op = "cancel" /\ r.pc = "restore" -> CancelRestore(r, d)
      [] r.op = "cancel" /\ r.pc = "commit" -> CancelCommit(r, d)
      [] r.op = "get" /\ r.pc = "find" -> GetFind(r, d)
      [] r.op = "list" /\ r.pc = "find" -> ListFind(r, d)
      [] r.op = "products" /\ r.pc = "find" -> ProductsFind(r, d)
      [] r.op \in AddressOps /\ r.pc = "find" -> AddressFind(r, d)
      [] r.op \in AddressOps /\ r.pc = "clear" -> AddressClear(r, d)
      [] r.op \in AddressOps /\ r.pc = "commit" -> AddressCommit(r, d)

RECURSIVE Run(_, _)
Run(r, d) ==
    IF r.pc = "done"
    THEN [r |-> r, db |-> d]
    ELSE LET s == Step(r, d) IN Run(s.r, s.db)

\* The request and its response.  undo: the request is the cancel_order of
\* the order that the request before it created.
Response(r, before) ==
    [op |-> r.op, user |-> r.user, cart |-> r.cart, order_id |-> r.order_id,
     address_id |-> r.address_id, is_default |-> r.is_default,
     status_code |-> r.status_code, error |-> r.error,
     undo |-> /\ r.op = "cancel"
              /\ before.op = "place"
              /\ before.status_code = 201
              /\ before.order_id = r.order_id,
     orders |-> r.orders,
     category |-> r.category, search |-> r.search, skip |-> r.skip,
     limit |-> r.limit, products |-> r.products,
     username |-> r.username, email |-> r.email, password |-> r.password,
     token |-> r.token, clock |-> r.clock]

-----------------------------------------------------------------------------
(* Spec: requests one at a time *)

Init ==
    /\ db = StockedDb
    /\ req = <<>>
    /\ last = NoResponse
    /\ pre = db
    /\ init = db
    /\ now = 0
    /\ tokens = {}
    /\ float = FloatUnit({1}, {1, 2}, MaxQty, MaxLines)

\* One request, from get_db's session to the response
Call(r) ==
    /\ LET out == Run(r, db)
       IN  /\ db' = out.db
           /\ last' = Response(out.r, last)
    /\ pre' = db
    /\ UNCHANGED <<req, init, now, tokens, float>>

PlaceOrder(u, cart) ==
    /\ db.order_seq < MaxOrders
    /\ LET out == Run(StartPlace(u, cart), db)
       IN  /\ db' = out.db
           /\ last' = Response(out.r, last)
    /\ pre' = db
    /\ UNCHANGED <<req, init, now, tokens, float>>

CancelOrder(u, oid) ==
    /\ LET out == Run(StartCancel(u, oid), db)
       IN  /\ db' = out.db
           /\ last' = Response(out.r, last)
    /\ pre' = db
    /\ UNCHANGED <<req, init, now, tokens, float>>

GetOrder(u, oid) == Call(StartGet(u, oid))

GetUserOrders(u) == Call(StartList(u))

Next ==
    \/ \E u \in Users, cart \in Carts : PlaceOrder(u, cart)
    \/ \E u \in Users, oid \in OrderIds : CancelOrder(u, oid)
    \/ \E u \in Users, oid \in OrderIds : GetOrder(u, oid)
    \/ \E u \in Users : GetUserOrders(u)

Spec == Init /\ [][Next]_vars

-----------------------------------------------------------------------------
(* SpecShop: the catalog and the orders of one user, one request at a      *)
(* time, while the product rows are revised (the products are managed      *)
(* outside the handlers: no handler writes a name or a price).             *)

ShopCarts ==
    UNION {[1..n -> [product_id : {1, 2}, quantity : 1..ShopMaxQty]] :
             n \in 0..MaxLines}

InitShop ==
    /\ db = InitDb([p \in ProductIds |-> ShopMaxQty])
    /\ req = <<>>
    /\ last = NoResponse
    /\ pre = db
    /\ init = db
    /\ now = 0
    /\ tokens = {}
    /\ float = FloatUnit(1..Len(Catalogs), {1, 2}, ShopMaxQty, MaxLines)

\* The names and the prices of the product rows become those of catalog c
ReviseProducts(c) ==
    /\ \E p \in ProductIds : db.products[p].price # Catalogs[c].price[p]
    /\ db' = [db EXCEPT !.products =
                [p \in ProductIds |->
                    [db.products[p] EXCEPT !.name = Catalogs[c].name[p],
                                           !.price = Catalogs[c].price[p]]]]
    /\ last' = [NoResponse EXCEPT !.op = "revise"]
    /\ pre' = db
    /\ UNCHANGED <<req, init, now, tokens, float>>

GetProducts(category, search, skip, limit) ==
    Call(StartProducts(category, search, skip, limit))

ShopPlaceOrder(cart) ==
    /\ db.order_seq < ShopMaxOrders
    /\ PlaceOrder(1, cart)

NextShop ==
    \/ \E cart \in ShopCarts : ShopPlaceOrder(cart)
    \/ \E oid \in 1..ShopMaxOrders : CancelOrder(1, oid)
    \/ \E c \in 1..Len(Catalogs) : ReviseProducts(c)
    \/ \E category \in {"none", "", "Fruits", "Dairy", "Snacks"},
          search \in SearchTerms, skip \in {0, 1}, limit \in {1, 100} :
          GetProducts(category, search, skip, limit)

SpecShop == InitShop /\ [][NextShop]_vars

-----------------------------------------------------------------------------
(* SpecAddr: the address book, one request at a time *)

CreateAddress(u, is_default) ==
    /\ db.address_seq < MaxAddresses
    /\ Call(StartCreate(u, is_default))

UpdateAddress(u, id, is_default) == Call(StartUpdate(u, id, is_default))

DeleteAddress(u, id) == Call(StartDelete(u, id))

SetDefaultAddress(u, id) == Call(StartSetDefault(u, id))

NextAddr ==
    \/ \E u \in Users, b \in {"true", "false"} : CreateAddress(u, b)
    \/ \E u \in Users, id \in AddressIds,
          b \in {"unset", "null", "true", "false"} : UpdateAddress(u, id, b)
    \/ \E u \in Users, id \in AddressIds : DeleteAddress(u, id)
    \/ \E u \in Users, id \in AddressIds : SetDefaultAddress(u, id)

SpecAddr == Init /\ [][NextAddr]_vars

-----------------------------------------------------------------------------
(* SpecConc: NumRequests requests, each in its own session, one statement  *)
(* at a time                                                               *)

Requests == 1..NumRequests

InitConc ==
    /\ db \in InitDbs
    /\ req = [k \in Requests |-> NewRequest]
    /\ last = NoResponse
    /\ pre = db
    /\ init = db
    /\ now = 0
    /\ tokens = {}
    /\ float = FloatUnit({1}, {1, 2}, MaxQty, ConcMaxLines)

Advance(k) ==
    LET s == Step(req[k], db)
    IN  /\ req' = [req EXCEPT ![k] = s.r]
        /\ db' = s.db
        /\ UNCHANGED <<last, pre, init, now, tokens, float>>

BeginPlace(k, u, cart) ==
    /\ req[k].pc = "new"
    /\ k > 1 => req[k - 1].pc # "new"
    /\ req' = [req EXCEPT ![k] = StartPlace(u, cart)]
    /\ UNCHANGED <<db, last, pre, init, now, tokens, float>>

BeginCancel(k, u, oid) ==
    /\ req[k].pc = "new"
    /\ k > 1 => req[k - 1].pc # "new"
    /\ req' = [req EXCEPT ![k] = StartCancel(u, oid)]
    /\ UNCHANGED <<db, last, pre, init, now, tokens, float>>

ValidateLine(k) == req[k].op = "place" /\ req[k].pc = "validate" /\ Advance(k)

FlushOrder(k) == req[k].op = "place" /\ req[k].pc = "flush" /\ Advance(k)

CommitOrder(k) == req[k].op = "place" /\ req[k].pc = "commit" /\ Advance(k)

FindOrder(k) == req[k].op = "cancel" /\ req[k].pc = "find" /\ Advance(k)

RestoreItem(k) == req[k].op = "cancel" /\ req[k].pc = "restore" /\ Advance(k)

CommitCancel(k) == req[k].op = "cancel" /\ req[k].pc = "commit" /\ Advance(k)

NextConc ==
    \/ \E k \in Requests, u \in ConcUsers, cart \in ConcCarts : BeginPlace(k, u, cart)
    \/ \E k \in Requests, u \in ConcUsers, oid \in OrderIds : BeginCancel(k, u, oid)
    \/ \E k \in Requests : ValidateLine(k)
    \/ \E k \in Requests : FlushOrder(k)
    \/ \E k \in Requests : CommitOrder(k)
    \/ \E k \in Requests : FindOrder(k)
    \/ \E k \in Requests : RestoreItem(k)
    \/ \E k \in Requests : CommitCancel(k)

\* Requests are numbered in the order in which they arrive.
SpecConc == InitConc /\ [][NextConc]_vars

-----------------------------------------------------------------------------
(* SpecAddrConc: NumRequests address requests of one user, each in its own *)
(* session, one statement at a time.  A row written by a statement is      *)
(* locked until its transaction ends; a statement that needs a locked row  *)
(* waits, and runs on the rows committed when the lock is released.        *)

\* Two addresses of the user, the first the default
TwoAddresses ==
    <<[id |-> 1, user_id |-> 1, is_default |-> "true"],
      [id |-> 2, user_id |-> 1, is_default |-> "false"]>>

InitAddrConc ==
    /\ db \in {StockedDb,
                [StockedDb EXCEPT !.addresses = TwoAddresses, !.address_seq = 2]}
    /\ req = [k \in Requests |-> NewRequest]
    /\ last = NoResponse
    /\ pre = db
    /\ init = db
    /\ now = 0
    /\ tokens = {}
    /\ float = FloatUnit({}, {}, 0, 0)

\* The rows that request k has written and not committed
HeldLocks(k) ==
    IF req[k].op \in AddressOps /\ req[k].pc = "commit"
    THEN req[k].cleared
    ELSE {}

\* The rows that the next statement of request k writes
Needs(k) ==
    CASE req[k].op \in AddressOps /\ req[k].pc = "clear" ->
            ClearTargets(req[k], db)
      [] req[k].op \in {"update", "set_default"} /\ req[k].pc = "commit" ->
            IF req[k].is_default \notin {"unset", req[k].loaded_default}
            THEN {req[k].address_id}
            ELSE {}
      [] req[k].op = "delete" /\ req[k].pc = "commit" -> {req[k].address_id}
      [] OTHER -> {}

WaitsFor(k, j) == j # k /\ Needs(k) \cap HeldLocks(j) # {}

Blocked(k) == \E j \in Requests : WaitsFor(k, j)

RECURSIVE WaitClosure(_)
WaitClosure(S) ==
    LET T == S \cup {j \in Requests : \E i \in S : WaitsFor(i, j)}
    IN  IF T = S THEN S ELSE WaitClosure(T)

Deadlocked(k) == \E j \in Requests : WaitsFor(k, j) /\ k \in WaitClosure({j})

Begin(k, r) ==
    /\ req[k].pc = "new"
    /\ k > 1 => req[k - 1].pc # "new"
    /\ req' = [req EXCEPT ![k] = r]
    /\ UNCHANGED <<db, last, pre, init, now, tokens, float>>

BeginCreate(k, u, is_default) ==
    /\ db.address_seq
         + Cardinality({j \in Requests : req[j].op = "create" /\ req[j].pc # "done"})
         < MaxAddresses
    /\ Begin(k, StartCreate(u, is_default))

BeginUpdate(k, u, id, is_default) == Begin(k, StartUpdate(u, id, is_default))

BeginDelete(k, u, id) == Begin(k, StartDelete(u, id))

BeginSetDefault(k, u, id) == Begin(k, StartSetDefault(u, id))

FindAddress(k) ==
    /\ req[k].op \in AddressOps /\ req[k].pc = "find"
    /\ Advance(k)

ClearAddresses(k) ==
    /\ req[k].op \in AddressOps /\ req[k].pc = "clear"
    /\ ~Blocked(k)
    /\ Advance(k)

CommitAddress(k) ==
    /\ req[k].op \in AddressOps /\ req[k].pc = "commit"
    /\ ~Blocked(k)
    /\ Advance(k)

\* The store ends a transaction of a cycle of waiting transactions: the
\* request fails and its session is rolled back.
DeadlockAbort(k) ==
    /\ Deadlocked(k)
    /\ req' = [req EXCEPT ![k] = Raise(req[k], 500, "Deadlock")]
    /\ UNCHANGED <<db, last, pre, init, now, tokens, float>>

NextAddrConc ==
    \/ \E k \in Requests, u \in ConcUsers, b \in {"true", "false"} :
          BeginCreate(k, u, b)
    \/ \E k \in Requests, u \in ConcUsers, id \in AddressIds,
          b \in {"unset", "null", "true", "false"} : BeginUpdate(k, u, id, b)
    \/ \E k \in Requests, u \in ConcUsers, id \in AddressIds : BeginDelete(k, u, id)
    \/ \E k \in Requests, u \in ConcUsers, id \in AddressIds :
          BeginSetDefault(k, u, id)
    \/ \E k \in Requests : FindAddress(k)
    \/ \E k \in Requests : ClearAddresses(k)
    \/ \E k \in Requests : CommitAddress(k)
    \/ \E k \in Requests : DeadlockAbort(k)

SpecAddrConc == InitAddrConc /\ [][NextAddrConc]_vars

-----------------------------------------------------------------------------
(* SpecAuth: register, login and /auth/me, one request at a time, while    *)
(* the clock advances and accounts are deactivated (is_active is written   *)
(* by no handler).                                                         *)

Usernames == {"john_doe", "alice", "bob"}
LoginNames == Usernames \cup {"nobody"}
Emails == {"john@example.com", "alice@example.com"}
Secrets == {Secret(1), Secret(2)}
NoSuchUser == MaxUsers + 1

\* The claims sub of the tokens that a client presents
Subs ==
    {NoSub, [type |-> "text", val |-> 0]}
        \cup [type : {"int", "str"}, val : {1, NoSuchUser}]

\* Tokens not issued by login: no token, no JWT, and JWTs with any
\* signature and subject that expire as a token issued at the start does
CraftedTokens ==
    {NoToken, [NoToken EXCEPT !.form = "malformed"]}
        \cup [form : {"jwt"}, signed : BOOLEAN, sub : Subs,
              exp : {ACCESS_TOKEN_EXPIRE_MINUTES}]

InitAuth ==
    /\ db = StockedDb
    /\ req = <<>>
    /\ last = NoResponse
    /\ pre = db
    /\ init = db
    /\ now = 0
    /\ tokens = {}
    /\ float = FloatUnit({1}, {1}, 1, 1)

Register(username, email, password, strict) ==
    /\ db.user_seq < MaxUsers
    /\ Call(StartRegister(username, email, password, strict))

Login(username, password, strict) ==
    /\ Cardinality(tokens) < MaxTokens
    /\ LET out == Run(StartLogin(username, password, now, strict), db)
       IN  /\ db' = out.db
           /\ last' = Response(out.r, last)
           /\ tokens' = IF out.r.status_code = 200
                        THEN tokens \cup {out.r.token}
                        ELSE tokens
    /\ pre' = db
    /\ UNCHANGED <<req, init, now, float>>

Me(token) == Call(WithToken(StartMe(0), token, now))

\* The clock advances by m minutes: by the life of a token, or by one
\* minute up to MaxDrift minutes past a multiple of it
Tick(m) ==
    /\ now + m <= ACCESS_TOKEN_EXPIRE_MINUTES + MaxDrift
    /\ m = 1 => now % ACCESS_TOKEN_EXPIRE_MINUTES < MaxDrift
    /\ now' = now + m
    /\ last' = [NoResponse EXCEPT !.op = "tick"]
    /\ pre' = db
    /\ UNCHANGED <<db, req, init, tokens, float>>

\* The account of user u is deactivated
Deactivate(u) ==
    /\ \E k \in 1..Len(db.users) : db.users[k].id = u /\ db.users[k].is_active
    /\ db' = [db EXCEPT !.users =
                ReplaceRow(db.users, u,
                           [RowsById(db.users, u)[1] EXCEPT !.is_active = FALSE])]
    /\ last' = [NoResponse EXCEPT !.op = "deactivate"]
    /\ pre' = db
    /\ UNCHANGED <<req, init, now, tokens, float>>

NextAuth ==
    \/ \E username \in Usernames, email \in Emails, password \in Secrets,
          strict \in BOOLEAN : Register(username, email, password, strict)
    \/ \E username \in LoginNames, password \in Secrets, strict \in BOOLEAN :
          Login(username, password, strict)
    \/ \E token \in tokens : Me(token)
    \/ \E m \in {1, ACCESS_TOKEN_EXPIRE_MINUTES} : Tick(m)
    \/ \E u \in Users : Deactivate(u)

SpecAuth == InitAuth /\ [][NextAuth]_vars

-----------------------------------------------------------------------------
(* SpecGate: the authenticated handlers, each called with a token, one     *)
(* request at a time, while the clock advances.                            *)

GatePlaceOrder(token, cart) ==
    /\ db.order_seq < GateMaxRows
    /\ Call(WithToken(StartPlace(0, cart), token, now))

GateCancelOrder(token, oid) == Call(WithToken(StartCancel(0, oid), token, now))

GateGetOrder(token, oid) == Call(WithToken(StartGet(0, oid), token, now))

GateGetUserOrders(token) == Call(WithToken(StartList(0), token, now))

GateCreateAddress(token, is_default) ==
    /\ db.address_seq < GateMaxRows
    /\ Call(WithToken(StartCreate(0, is_default), token, now))

GateUpdateAddress(token, id, is_default) ==
    Call(WithToken(StartUpdate(0, id, is_default), token, now))

GateDeleteAddress(token, id) == Call(WithToken(StartDelete(0, id), token, now))

GateSetDefaultAddress(token, id) ==
    Call(WithToken(StartSetDefault(0, id), token, now))

GateCarts == {<<[product_id |-> 1, quantity |-> 1]>>}

\* The users that the tokens name
GateUsers == {sub.val : sub \in Subs} \cap Users

NextGate ==
    \/ \E token \in CraftedTokens, cart \in GateCarts :
          GatePlaceOrder(token, cart)
    \/ \E token \in CraftedTokens, oid \in 1..GateMaxRows :
          GateCancelOrder(token, oid)
    \/ \E token \in CraftedTokens, oid \in 1..GateMaxRows :
          GateGetOrder(token, oid)
    \/ \E token \in CraftedTokens : GateGetUserOrders(token)
    \/ \E token \in CraftedTokens, b \in {"true"} :
          GateCreateAddress(token, b)
    \/ \E token \in CraftedTokens, id \in 1..GateMaxRows, b \in {"true", "false"} :
          GateUpdateAddress(token, id, b)
    \/ \E token \in CraftedTokens, id \in 1..GateMaxRows :
          GateDeleteAddress(token, id)
    \/ \E token \in CraftedTokens, id \in 1..GateMaxRows :
          GateSetDefaultAddress(token, id)
    \/ \E token \in CraftedTokens : Me(token)
    \/ \E m \in {1, ACCESS_TOKEN_EXPIRE_MINUTES} : Tick(m)
    \/ \E u \in GateUsers : Deactivate(u)

SpecGate == InitAuth /\ [][NextGate]_vars

-----------------------------------------------------------------------------
(* SpecPwd: hash_password, then verify_password of the same password       *)
(* against the hash, for every password that UserCreate accepts, of at     *)
(* most MaxRuns runs, on either build of the primitive.                    *)

Runs == [w : Widths, n : 1..MaxLength]

Passwords ==
    {p \in UNION {[1..k -> Runs] : k \in 1..MaxRuns} :
        /\ Chars(p) \in MinLength..MaxLength
        /\ \A k \in 1..(Len(p) - 1) : p[k].w # p[k + 1].w}

StartPassword(password, strict) ==
    [NewRequest EXCEPT !.op = "password", !.pc = "hash",
                       !.password = password, !.strict = strict]

InitPwd ==
    /\ db = StockedDb
    /\ req \in {<<StartPassword(p, strict)>> : p \in Passwords, strict \in BOOLEAN}
    /\ last = NoResponse
    /\ pre = db
    /\ init = db
    /\ now = 0
    /\ tokens = {}
    /\ float = FloatUnit({}, {}, 0, 0)

HashPassword == req[1].pc = "hash" /\ Advance(1)

VerifyPassword == req[1].pc = "verify" /\ Advance(1)

NextPwd == HashPassword \/ VerifyPassword

SpecPwd == InitPwd /\ [][NextPwd]_vars

-----------------------------------------------------------------------------
(* Properties of the order workflow, one request at a time (Spec) *)

\* The total quantity that the lines (or items) of a sequence ask of product p
RECURSIVE SumQty(_, _)
SumQty(lines, p) ==
    IF Len(lines) = 0
    THEN 0
    ELSE (IF Head(lines).product_id = p THEN Head(lines).quantity ELSE 0)
         + SumQty(Tail(lines), p)

\* A cart line that passes validation against database d
LineOk(d, line) ==
    /\ line.product_id \in DOMAIN d.products
    /\ d.products[line.product_id].is_active
    /\ d.products[line.product_id].stock >= line.quantity

\* C1: place_order is all-or-nothing.  When a line of the cart fails
\* validation (product absent, inactive, or stock < quantity), the request
\* fails, no order or item is persisted and no stock changes, the lines
\* before the failing one included.
C1_AllOrNothing ==
    (/\ last.op = "place"
     /\ \E k \in 1..Len(last.cart) : ~LineOk(pre, last.cart[k]))
    => /\ last.status_code \in {400, 404}
       /\ db = pre

C1_Witness ==
    /\ last.op = "place"
    /\ Len(last.cart) = 2
    /\ LineOk(pre, last.cart[1])
    /\ ~LineOk(pre, last.cart[2])
    /\ last.cart[1].product_id # last.cart[2].product_id
    /\ last.error = "InsufficientStock"

\* C3: the stock of every product is non-negative in every state reached by
\* place_order and cancel_order calls, one at a time, for every cart the
\* schema accepts.
C3_StockNonNegative ==
    \A p \in ProductIds : db.products[p].stock >= 0

\* C4: after a successful place_order there is exactly one new order, owned
\* by the caller, pending / payment pending, with one item per cart line,
\* and every product's stock is lower by the sum of the quantities of the
\* lines that name it.
C4_PlaceOrderEffect ==
    (last.op = "place" /\ last.status_code = 201)
    => /\ Len(db.orders) = Len(pre.orders) + 1
       /\ SubSeq(db.orders, 1, Len(pre.orders)) = pre.orders
       /\ LET o == db.orders[Len(db.orders)]
          IN  /\ o.id = last.order_id
              /\ \A k \in 1..Len(pre.orders) : pre.orders[k].id # o.id
              /\ o.user_id = last.user
              /\ o.status = "pending"
              /\ o.payment_status = "pending"
              /\ Len(o.items) = Len(last.cart)
              /\ \A k \in 1..Len(last.cart) :
                    /\ o.items[k].product_id = last.cart[k].product_id
                    /\ o.items[k].quantity = last.cart[k].quantity
       /\ \A p \in ProductIds :
             db.products[p].stock = pre.products[p].stock - SumQty(last.cart, p)

C4_Witness ==
    /\ last.op = "place"
    /\ last.status_code = 201
    /\ Len(pre.orders) = 1
    /\ Len(last.cart) = 2
    /\ last.cart[1].product_id = 1
    /\ last.cart[2].product_id = 1
    /\ db.products[2].stock = pre.products[2].stock

\* The order of database d that request l names, for its caller
OwnOrders(d, l) ==
    SelectSeq(d.orders, LAMBDA o : o.id = l.order_id /\ o.user_id = l.user)

\* C5: cancel_order of a pending order of the caller sets it to cancelled
\* and adds the quantity of each item back to its product; place_order
\* followed at once by cancel_order of the order it created returns every
\* stock to its value before place_order.
C5_CancelRestores ==
    [][(/\ last'.op = "cancel"
        /\ Len(OwnOrders(db, last')) = 1
        /\ OwnOrders(db, last')[1].status = "pending")
       => /\ last'.status_code = 200
          /\ Len(OwnOrders(db', last')) = 1
          /\ OwnOrders(db', last')[1].status = "cancelled"
          /\ \A p \in ProductIds :
                db'.products[p].stock =
                    db.products[p].stock + SumQty(OwnOrders(db, last')[1].items, p)
          /\ last'.undo => db'.products = pre.products]_vars

C5_Witness ==
    /\ last.op = "cancel"
    /\ last.status_code = 200
    /\ last.undo
    /\ Len(OwnOrders(db, last)[1].items) = 2
    /\ db.products # pre.products

\* C6: cancel_order of an order of the caller that is not pending (a second
\* cancel, say) fails with InvalidState and changes neither the order nor
\* any stock.
C6_CancelNotPending ==
    (/\ last.op = "cancel"
     /\ Len(OwnOrders(pre, last)) = 1
     /\ OwnOrders(pre, last)[1].status # "pending")
    => /\ last.status_code = 400
       /\ last.error = "InvalidState"
       /\ db = pre

C6_Witness ==
    /\ last.op = "cancel"
    /\ last.error = "InvalidState"
    /\ Len(OwnOrders(pre, last)) = 1
    /\ OwnOrders(pre, last)[1].status = "cancelled"
    /\ Len(OwnOrders(pre, last)[1].items) >= 1

-----------------------------------------------------------------------------
(* Properties of the order workflow under concurrent requests (SpecConc) *)

Started == {k \in DOMAIN req : req[k].pc # "new"}

\* C2: concurrent place_order requests for quantity 1 of the same product,
\* whose stock is 1: the stock is never negative, and once two or more such
\* requests have all completed exactly one has succeeded, the others have
\* failed with InsufficientStock, and the stock is 0.
C2_ExactlyOneSucceeds ==
    \A p \in {1, 2} :
        (/\ init.products[p].stock = 1
         /\ \A k \in Started :
               /\ req[k].op = "place"
               /\ req[k].cart = <<[product_id |-> p, quantity |-> 1]>>)
        => /\ db.products[p].stock >= 0
           /\ (Cardinality(Started) >= 2 /\ \A k \in Started : req[k].pc = "done")
              => /\ Cardinality({k \in Started : req[k].status_code = 201}) = 1
                 /\ \A k \in Started :
                       req[k].status_code # 201 => req[k].error = "InsufficientStock"
                 /\ db.products[p].stock = 0

\* C7: concurrent cancel_order requests for the same pending order add the
\* quantity of each of its items back to the stock exactly once.  Request 1
\* has placed the order and every other request cancels it: the stock is the
\* initial stock, less the items while the order is pending.
C7_RestoredOnce ==
    (/\ Started # {}
     /\ req[1].op = "place"
     /\ req[1].status_code = 201
     /\ \A k \in Started \ {1} :
           req[k].op = "cancel" /\ req[k].order_id = req[1].order_id)
    => \A p \in ProductIds :
          db.products[p].stock =
              init.products[p].stock
              - (IF RowsById(db.orders, req[1].order_id)[1].status = "pending"
                 THEN SumQty(req[1].cart, p)
                 ELSE 0)

-----------------------------------------------------------------------------
(* Properties of the address book *)

\* The ids of the addresses of user u that are the default
Defaults(d, u) ==
    {d.addresses[k].id : k \in
        {k \in 1..Len(d.addresses) :
            d.addresses[k].user_id = u /\ d.addresses[k].is_default = "true"}}

\* The rows of user u
RowsOf(d, u) == SelectSeq(d.addresses, LAMBDA a : a.user_id = u)

\* C8: with address requests one at a time, every user has at most one
\* default address in every state.
C8_AtMostOneDefault ==
    \A u \in Users : Cardinality(Defaults(db, u)) <= 1

C8_Witness ==
    /\ last.op \in {"update", "set_default"}
    /\ last.status_code = 200
    /\ Len(RowsOf(db, last.user)) >= 2
    /\ Defaults(db, last.user) = {last.address_id}
    /\ Defaults(pre, last.user) # {}
    /\ Defaults(pre, last.user) # {last.address_id}

\* C9: once concurrent default-requesting address requests of one user have
\* all completed, the user has at most one default address.
C9_AtMostOneDefaultConcurrent ==
    (\A k \in Started :
        /\ req[k].op \in {"create", "update", "set_default"}
        /\ req[k].is_default = "true"
        /\ req[k].pc = "done")
    => \A u \in Users : Cardinality(Defaults(db, u)) <= 1

\* C10: right after a successful create or update with is_default = true,
\* or set_default, of address a of user u, a is the one default address of
\* u, also when a was the default before.
C10_TheDefault ==
    (/\ last.op \in {"create", "update", "set_default"}
     /\ last.is_default = "true"
     /\ last.status_code \in {200, 201})
    => Defaults(db, last.user) = {last.address_id}

C10_Witness ==
    /\ last.op = "set_default"
    /\ last.status_code = 200
    /\ Defaults(pre, last.user) = {last.address_id}
    /\ Len(RowsOf(db, last.user)) >= 2
    /\ Defaults(db, last.user) = {last.address_id}

-----------------------------------------------------------------------------
(* Ownership of orders (Spec) *)

\* An order id that names no order
NoSuchOrder == MaxOrders + 1

ForeignOrders(d, u, oid) ==
    SelectSeq(RowsById(d.orders, oid), LAMBDA o : o.user_id # u)

\* C13: get_order and cancel_order by user u on an order of another user
\* fail with NotFound, with the same response as for an id that names no
\* order, and change nothing (the order's status and every stock included);
\* get_user_orders returns only orders owned by u.
C13_OrdersOfOthers ==
    /\ (last.op \in {"get", "cancel"}
          /\ Len(ForeignOrders(pre, last.user, last.order_id)) > 0)
        => LET start == IF last.op = "get"
                        THEN StartGet(last.user, NoSuchOrder)
                        ELSE StartCancel(last.user, NoSuchOrder)
               absent == Run(start, pre).r
           IN  /\ last.status_code = 404
               /\ last.error = "NotFound"
               /\ last.status_code = absent.status_code
               /\ last.error = absent.error
               /\ last.orders = absent.orders
               /\ db = pre
    /\ last.op = "list"
        => \A k \in 1..Len(last.orders) : last.orders[k].user_id = last.user

\* cancel_order was called on a pending order, with items, of another user
C13_Witness ==
    /\ last.op = "cancel"
    /\ last.status_code = 404
    /\ \E k \in 1..Len(db.orders) :
          /\ db.orders[k].id = last.order_id
          /\ db.orders[k].user_id # last.user
          /\ db.orders[k].status = "pending"
          /\ Len(db.orders[k].items) > 0

-----------------------------------------------------------------------------
(* Ownership of addresses (SpecAddr) *)

OwnAddresses(d, u, id) ==
    SelectSeq(RowsById(d.addresses, id), LAMBDA a : a.user_id = u)

\* C14: update, delete and set_default by user u on an address id that
\* names no address, or an address of another user, fail with NotFound and
\* change no address of any user (no is_default flag of u or of the other
\* user changes).
C14_AddressesOfOthers ==
    (last.op \in {"update", "delete", "set_default"}
      /\ Len(OwnAddresses(pre, last.user, last.address_id)) = 0)
    => /\ last.status_code = 404
       /\ last.error = "NotFound"
       /\ db.addresses = pre.addresses
       /\ db = pre

\* set_default was called by a user who has a default address, on the
\* address of another user that is not a default
C14_Witness ==
    /\ last.op = "set_default"
    /\ last.status_code = 404
    /\ Defaults(db, last.user) # {}
    /\ \E k \in 1..Len(db.addresses) :
          /\ db.addresses[k].id = last.address_id
          /\ db.addresses[k].user_id # last.user
          /\ db.addresses[k].is_default = "false"

-----------------------------------------------------------------------------
(* Amounts, snapshots and the catalog (SpecShop) *)

\* The sum over the cart lines of price times quantity, with the prices of
\* database d, in hundredths
RECURSIVE CartAmount(_, _)
CartAmount(cart, d) ==
    IF Len(cart) = 0
    THEN 0
    ELSE d.products[Head(cart).product_id].price * Head(cart).quantity
         + CartAmount(Tail(cart), d)

\* C17: for every order created by place_order, in hundredths: subtotal is
\* the sum over the cart lines of current price times quantity;
\* delivery_fee is 0 when subtotal > 500.00 and 49.00 otherwise (49.00 at
\* exactly 500.00); tax is 5% of subtotal rounded to two decimals (a tie
\* either way); total = subtotal + delivery_fee + tax.
C17_Amounts ==
    (last.op = "place" /\ last.status_code = 201)
    => LET o == db.orders[Len(db.orders)]
           subtotal == CartAmount(last.cart, pre)
       IN  /\ o.subtotal = subtotal
           /\ o.delivery_fee = IF subtotal > 50000 THEN 0 ELSE 4900
           /\ 100 * o.tax - 5 * subtotal \in -50..50
           /\ o.total = o.subtotal + o.delivery_fee + o.tax

\* C18: every OrderItem has quantity > 0 and subtotal = product_price *
\* quantity; the items of a new order carry the name and the price that
\* the product had when the order was placed; no later request or revision
\* of the products (price, name, stock, cancellation) changes an item.
C18_Snapshots ==
    /\ \A k \in 1..Len(db.orders) : \A j \in 1..Len(db.orders[k].items) :
          LET item == db.orders[k].items[j]
          IN  /\ item.quantity > 0
              /\ item.subtotal = item.product_price * item.quantity
    /\ (last.op = "place" /\ last.status_code = 201)
        => LET o == db.orders[Len(db.orders)]
           IN  \A j \in 1..Len(o.items) :
                 /\ o.items[j].product_id = last.cart[j].product_id
                 /\ o.items[j].quantity = last.cart[j].quantity
                 /\ o.items[j].product_name
                      = pre.products[o.items[j].product_id].name
                 /\ o.items[j].product_price
                      = pre.products[o.items[j].product_id].price
    /\ Len(db.orders) >= Len(pre.orders)
    /\ \A k \in 1..Len(pre.orders) :
          /\ db.orders[k].id = pre.orders[k].id
          /\ db.orders[k].items = pre.orders[k].items

\* An order was cancelled after the name and the price of a product of one
\* of its items had changed
C18_Witness ==
    /\ last.op = "cancel"
    /\ last.status_code = 200
    /\ \E k \in 1..Len(db.orders) : \E j \in 1..Len(db.orders[k].items) :
          LET item == db.orders[k].items[j]
          IN  /\ db.orders[k].id = last.order_id
              /\ item.product_price # db.products[item.product_id].price
              /\ item.product_name # db.products[item.product_id].name

\* C19: get_products with a category name (a non-empty string) returns only
\* active products of the category of that name, and the empty sequence
\* when no category has that name (no error, and not the unfiltered list).
C19_CategoryFilter ==
    (last.op = "products" /\ last.category \notin {"none", ""})
    => LET named == SelectSeq(pre.categories,
                              LAMBDA c : c.name = last.category)
       IN  /\ last.status_code = 200
           /\ \A k \in 1..Len(last.products) :
                 /\ pre.products[last.products[k]].is_active
                 /\ \E j \in 1..Len(named) :
                       pre.products[last.products[k]].category_id = named[j].id
           /\ Len(named) = 0 => last.products = <<>>

-----------------------------------------------------------------------------
(* Authentication (SpecGate, SpecAuth) *)

AuthenticatedOps ==
    {"place", "cancel", "get", "list", "create", "update", "delete",
     "set_default", "me"}

\* The token is missing, malformed, wrongly signed or expired at that time,
\* or its subject names no user of database d
Unacceptable(token, d, clock) ==
    \/ token.form \in {"missing", "malformed"}
    \/ ~token.signed
    \/ clock > token.exp
    \/ token.sub.type \in {"none", "text"}
    \/ Len(RowsById(d.users, token.sub.val)) = 0

\* C11: an authenticated operation called with a token that is missing,
\* malformed, expired or wrongly signed, or whose subject maps to no user,
\* fails with Unauthenticated (401) and changes nothing in the database.
C11_Unauthenticated ==
    (last.op \in AuthenticatedOps
      /\ Unacceptable(last.token, pre, last.clock))
    => /\ last.status_code = 401
       /\ last.error = "Unauthenticated"
       /\ db = pre

\* cancel_order was called on a pending order of user 1 with a token for
\* user 1, correctly signed, that has expired
C11_Witness ==
    /\ last.op = "cancel"
    /\ last.status_code = 401
    /\ last.token.form = "jwt"
    /\ last.token.signed
    /\ last.token.sub = [type |-> "str", val |-> 1]
    /\ last.clock > last.token.exp
    /\ \E k \in 1..Len(db.orders) :
          /\ db.orders[k].id = last.order_id
          /\ db.orders[k].user_id = 1
          /\ db.orders[k].status = "pending"

\* C12: a token that login has returned resolves, at any time before its
\* expiry and while the user exists, to the user who logged in, in
\* get_current_user and so in /auth/me; after its expiry it resolves to
\* nobody.
C12_LoginToken ==
    /\ \A t \in tokens :
          LET current_user == get_current_user(t, db, now)
          IN  /\ (now < t.exp /\ Len(RowsById(db.users, t.sub.val)) > 0)
                   => (current_user.found /\ current_user.id = t.sub.val)
              /\ now > t.exp => ~current_user.found
    /\ (last.op = "me" /\ last.token \in tokens)
        => IF last.clock < last.token.exp
           THEN last.status_code = 200 /\ last.user = last.token.sub.val
           ELSE last.clock > last.token.exp => last.status_code = 401

\* A user with this username, or with this email, is in database d
Registered(d, username, email) ==
    \E k \in 1..Len(d.users) :
        d.users[k].username = username \/ d.users[k].email = email

\* C15: register fails with DuplicateIdentity and leaves the users as they
\* are when a user with the same username or the same email exists, and
\* otherwise succeeds and adds the user (role customer, active, not
\* verified); no two users share a username, no two users share an email.
C15_DuplicateIdentity ==
    /\ last.op = "register"
        => IF Registered(pre, last.username, last.email)
           THEN /\ last.status_code = 400
                /\ last.error = "DuplicateIdentity"
                /\ db = pre
           ELSE /\ last.status_code = 201
                /\ Len(db.users) = Len(pre.users) + 1
                /\ SubSeq(db.users, 1, Len(pre.users)) = pre.users
                /\ LET new_user == db.users[Len(db.users)]
                   IN  /\ new_user.id = last.user
                       /\ new_user.username = last.username
                       /\ new_user.email = last.email
                       /\ new_user.role = "customer"
                       /\ new_user.is_active
                       /\ ~new_user.is_verified
    /\ \A j, k \in 1..Len(db.users) :
          j # k => /\ db.users[j].username # db.users[k].username
                   /\ db.users[j].email # db.users[k].email
                   /\ db.users[j].id # db.users[k].id

\* A second registration with a new username and the email of a user who
\* registered before it has failed
C15_Witness ==
    /\ last.op = "register"
    /\ last.status_code = 400
    /\ \A k \in 1..Len(db.users) : db.users[k].username # last.username
    /\ \E k \in 1..Len(db.users) :
          /\ db.users[k].id > Len(SeedUsers)
          /\ db.users[k].email = last.email

\* The response of login as the client sees it
LoginOutcome(response) ==
    [status_code |-> response.status_code, error |-> response.error,
     token |-> response.token, user |-> response.user]

-----------------------------------------------------------------------------
(* Passwords (SpecPwd) *)

\* C20: for every password of MinLength to MaxLength characters,
\* hash_password and verify_password hand at most BcryptBytes bytes to the
\* primitive, neither fails, and verify_password of the password against
\* its own hash is true.
C20_HashVerify ==
    \A k \in DOMAIN req :
        req[k].op = "password"
        => /\ req[k].handed <= BcryptBytes
           /\ req[k].pc = "done"
                => /\ req[k].status_code = 200
                   /\ req[k].verified

-----------------------------------------------------------------------------
(* The validation of a cart, the life of an order, the stock and the       *)
(* account flag                                                             *)

\* What is wrong with a cart line, given the product rows: "" if nothing
LineFailure(products, line) ==
    IF line.product_id \notin DOMAIN products THEN "ProductNotFound"
    ELSE IF ~products[line.product_id].is_active THEN "ProductUnavailable"
    ELSE IF products[line.product_id].stock < line.quantity
    THEN "InsufficientStock"
    ELSE ""

\* The lines of a cart something is wrong with
FailingLines(products, cart) ==
    {k \in 1..Len(cart) : LineFailure(products, cart[k]) # ""}

FirstFailure(products, cart) ==
    LET failing == FailingLines(products, cart)
    IN  IF failing = {}
        THEN ""
        ELSE LineFailure(products,
                         cart[CHOOSE k \in failing : \A j \in failing : k <= j])

\* C21: place_order succeeds if and only if every cart line names a product
\* that exists, is active and has stock >= the quantity of the line;
\* otherwise the error is that of the first failing line of the cart, and
\* on a line ProductNotFound comes before ProductUnavailable, which comes
\* before InsufficientStock.
C21_ValidationOrder ==
    last.op = "place" =>
        /\ last.status_code = 201 <=> FailingLines(pre.products, last.cart) = {}
        /\ last.error = FirstFailure(pre.products, last.cart)
        /\ last.error = "ProductNotFound" => last.status_code = 404
        /\ last.error \in {"ProductUnavailable", "InsufficientStock"} =>
               last.status_code = 400

\* An order refused on its second line, whose product is deactivated and
\* has less stock than the line asks for
C21_Witness ==
    /\ last.op = "place"
    /\ Len(last.cart) = 2
    /\ last.cart[2].product_id = 3
    /\ pre.products[3].stock < last.cart[2].quantity
    /\ last.error = "ProductUnavailable"

\* C22: every order is created with status pending; the only change of
\* status that a step makes is pending -> cancelled; a cancelled order
\* stays cancelled; the payment_status of every order is pending, whatever
\* the requests and however their steps interleave.
C22_StatusMachine ==
    [][/\ Len(db'.orders) >= Len(db.orders)
       /\ \A k \in 1..Len(db'.orders) :
            LET new == db'.orders[k]
            IN  /\ new.payment_status = "pending"
                /\ IF k > Len(db.orders)
                   THEN new.status = "pending"
                   ELSE LET old == db.orders[k]
                        IN  /\ new.id = old.id
                            /\ old.status # new.status =>
                                   /\ old.status = "pending"
                                   /\ new.status = "cancelled"
                            /\ old.status = "cancelled" =>
                                   new.status = "cancelled"]_vars

\* A cancelled order next to a pending one
C22_Witness ==
    \E j, k \in 1..Len(db.orders) :
        /\ db.orders[j].status = "cancelled"
        /\ db.orders[k].status = "pending"

\* The quantity of product p in the items of the first k orders, those
\* cancelled left out
RECURSIVE Reserved(_, _, _)
Reserved(orders, p, k) ==
    IF k = 0
    THEN 0
    ELSE Reserved(orders, p, k - 1)
         + (IF orders[k].status = "cancelled"
            THEN 0
            ELSE SumQty(orders[k].items, p))

\* C23: stock conservation.  In every committed state and for every
\* product, the stock plus the quantities of the product in the items of
\* the orders that are not cancelled is the initial stock, however the
\* steps of concurrent place_order and cancel_order requests interleave.
C23_StockConservation ==
    \A p \in ProductIds :
        db.products[p].stock + Reserved(db.orders, p, Len(db.orders))
            = init.products[p].stock

\* Database d with the is_active of user u negated
Toggled(d, u) ==
    [d EXCEPT !.users =
        [k \in 1..Len(d.users) |->
            IF d.users[k].id = u
            THEN [d.users[k] EXCEPT !.is_active = ~@]
            ELSE d.users[k]]]

OrderRows(d, id) == SelectSeq(d.orders, LAMBDA o : o.id = id)

\* C25: place_order with a cart of no lines is accepted.  It persists one
\* order with no items, subtotal 0, delivery_fee 49, tax 0, total 49
\* (amounts in hundredths) and status pending, and leaves every stock as it
\* was; cancel_order of such an order by its owner sets it to cancelled
\* and leaves every stock as it was.
C25_EmptyCart ==
    /\ (last.op = "place" /\ last.cart = <<>>)
       => /\ last.status_code = 201
          /\ db.products = pre.products
          /\ OrderRows(pre, last.order_id) = <<>>
          /\ Len(db.orders) = Len(pre.orders) + 1
          /\ OrderRows(db, last.order_id) =
                <<[id |-> last.order_id,
                   user_id |-> last.user,
                   subtotal |-> 0,
                   delivery_fee |-> 4900,
                   tax |-> 0,
                   total |-> 4900,
                   status |-> "pending",
                   payment_status |-> "pending",
                   items |-> <<>>]>>
    /\ (/\ last.op = "cancel"
        /\ \E k \in 1..Len(pre.orders) :
              /\ pre.orders[k].id = last.order_id
              /\ pre.orders[k].user_id = last.user
              /\ pre.orders[k].status = "pending"
              /\ pre.orders[k].items = <<>>)
       => /\ last.status_code = 200
          /\ db.products = pre.products
          /\ Len(OrderRows(db, last.order_id)) = 1
          /\ OrderRows(db, last.order_id)[1] =
                [OrderRows(pre, last.order_id)[1] EXCEPT !.status = "cancelled"]

\* An order placed with an empty cart has just been cancelled
C25_Witness ==
    /\ last.op = "cancel"
    /\ last.status_code = 200
    /\ last.undo
    /\ Len(OrderRows(db, last.order_id)) = 1
    /\ OrderRows(db, last.order_id)[1].items = <<>>
    /\ OrderRows(db, last.order_id)[1].status = "cancelled"
    /\ OrderRows(db, last.order_id)[1].total = 4900

=============================================================================
